---- MODULE Spec2Model ----
(***************************************************************************)
(* A model of the git layer of the web IDE: the useGit hook (gitClone,     *)
(* gitPush, gitPull with their authentication callbacks and the cookie     *)
(* credential cache), the filesystem adapter getFs that isomorphic-git     *)
(* drives, and the pathUtils string functions.                             *)
(*                                                                         *)
(* A JavaScript string is a sequence of one-character strings, so that     *)
(* split, join and the trailing-slash regex are computed, not assumed.     *)
(***************************************************************************)
EXTENDS Integers, Sequences, FiniteSets, TLC

\* ------------------------------------------------------------------------
\* JavaScript string and array primitives used by the source
\* ------------------------------------------------------------------------

SLASH == "/"

\* p.replace(/\/+$/, ''): drop every trailing '/'
RECURSIVE StripTrailingSlashes(_)
StripTrailingSlashes(s) ==
  IF s # <<>> /\ s[Len(s)] = SLASH
    THEN StripTrailingSlashes(SubSeq(s, 1, Len(s) - 1))
    ELSE s

\* String.prototype.includes('/')
IncludesSlash(s) == \E i \in 1..Len(s) : s[i] = SLASH

\* String.prototype.split('/'): always at least one part, empty parts kept
RECURSIVE SplitFrom(_, _, _)
SplitFrom(s, i, cur) ==
  IF i > Len(s) THEN <<cur>>
  ELSE IF s[i] = SLASH THEN <<cur>> \o SplitFrom(s, i + 1, <<>>)
  ELSE SplitFrom(s, i + 1, Append(cur, s[i]))

Split(s) == SplitFrom(s, 1, <<>>)

\* Array.prototype.join('/')
RECURSIVE Join(_)
Join(parts) ==
  IF parts = <<>> THEN <<>>
  ELSE IF Len(parts) = 1 THEN parts[1]
  ELSE parts[1] \o <<SLASH>> \o Join(Tail(parts))

\* Array.prototype.filter(Boolean) on an array of strings: drop the empty ones
RECURSIVE FilterNonEmpty(_)
FilterNonEmpty(parts) ==
  IF parts = <<>> THEN <<>>
  ELSE IF Head(parts) = <<>> THEN FilterNonEmpty(Tail(parts))
  ELSE <<Head(parts)>> \o FilterNonEmpty(Tail(parts))

\* Array(n).fill('..')
RECURSIVE Ups(_)
Ups(n) == IF n = 0 THEN <<>> ELSE << <<".", ".">> >> \o Ups(n - 1)

Min(a, b) == IF a < b THEN a ELSE b

\* String.prototype.endsWith
EndsWith(s, e) ==
  /\ Len(e) <= Len(s)
  /\ SubSeq(s, Len(s) - Len(e) + 1, Len(s)) = e

\* ------------------------------------------------------------------------
\* pathUtils
\* ------------------------------------------------------------------------

DOT == <<".">>
ROOT == <<SLASH>>

dirname_keepsTrailingSlashes(path) ==
  IF path = <<>> \/ ~IncludesSlash(path) THEN DOT
  ELSE LET parts == Split(path)
           dir == Join(SubSeq(parts, 1, Len(parts) - 1))
       IN  IF dir = <<>> THEN ROOT ELSE dir

dirname(path) ==
  IF path = <<>> \/ ~IncludesSlash(path) THEN DOT
  ELSE LET stripped == StripTrailingSlashes(path)
           parts == Split(stripped)
           dir == Join(SubSeq(parts, 1, Len(parts) - 1))
       IN  IF dir = <<>> THEN ROOT ELSE dir

\* ext = <<>> stands for an absent (or empty, equally falsy) second argument
basename(path, ext) ==
  LET stripped == StripTrailingSlashes(path)
      parts == Split(stripped)
      base == parts[Len(parts)]
  IN  IF ext # <<>> /\ EndsWith(base, ext)
        THEN SubSeq(base, 1, Len(base) - Len(ext))
        ELSE base

normalizePathParts(p) == FilterNonEmpty(Split(StripTrailingSlashes(p)))

\* the for loop of relative: the length of the longest common prefix
RECURSIVE CommonLength(_, _, _, _)
CommonLength(fromParts, toParts, i, minLength) ==
  IF i > minLength \/ fromParts[i] # toParts[i] THEN i - 1
  ELSE CommonLength(fromParts, toParts, i + 1, minLength)

relative(from, to) ==
  IF from = <<>> \/ to = <<>> THEN DOT
  ELSE LET fromParts == normalizePathParts(from)
           toParts == normalizePathParts(to)
           minLength == Min(Len(fromParts), Len(toParts))
           commonLength == CommonLength(fromParts, toParts, 1, minLength)
           upCount == Len(fromParts) - commonLength
           remainingPath == SubSeq(toParts, commonLength + 1, Len(toParts))
           relativeParts == Ups(upCount) \o remainingPath
       IN  IF Len(relativeParts) = 0 THEN DOT ELSE Join(relativeParts)

\* ------------------------------------------------------------------------
\* JavaScript values, the cookie jar and the credential cache
\* ------------------------------------------------------------------------

Str(s) == <<"string", s>>
Null == <<"null">>
Undefined == <<"undefined">>

\* the characters of the template-literal rendering of undefined
UNDEFINED_TEXT == <<"u", "n", "d", "e", "f", "i", "n", "e", "d">>
GIT_PREFIX == <<"g", "i", "t", ":">>

\* url.split('/')[2], as the template literal `git:${domain}` renders it
DomainOf(url) ==
  LET parts == Split(url)
  IN  IF Len(parts) >= 3 THEN parts[3] ELSE UNDEFINED_TEXT

CookieKey(url) == GIT_PREFIX \o DomainOf(url)

\* JSON.stringify of a GitAuth {username, password}: a property whose value
\* is undefined is left out, null is kept
JSONStringify(auth) ==
  <<"json",
    (IF auth.username = Undefined THEN <<>> ELSE << <<"username", auth.username>> >>)
    \o (IF auth.password = Undefined THEN <<>> ELSE << <<"password", auth.password>> >>)>>

GARBAGE == <<"garbage", <<>>>>

JSONParses(text) == text[1] = "json"

\* obj[name] of a parsed JSON object: undefined when the property is absent
GetProp(props, name) ==
  IF \E i \in 1..Len(props) : props[i][1] = name
    THEN props[CHOOSE i \in 1..Len(props) : props[i][1] = name][2]
    ELSE Undefined

NoCookie == <<"absent", <<>>>>

\* Cookies.get(name): the jar is a set of <<name, value>> cookies
CookiesGet(jar, key) ==
  IF \E c \in jar : c[1] = key
    THEN (CHOOSE c \in jar : c[1] = key)[2]
    ELSE NoCookie

\* Cookies.set(name, value): replaces the cookie of that name
CookiesSet(jar, key, value) == {c \in jar : c[1] # key} \cup {<<key, value>>}

NoAuth == <<"none">>
Cancel == <<"cancel">>
Auth(u, p) == <<"auth", [username |-> u, password |-> p]>>

lookupSavedPassword(jar, url) ==
  LET gitCreds == CookiesGet(jar, CookieKey(url))
  IN  IF gitCreds = NoCookie THEN NoAuth
      ELSE IF ~JSONParses(gitCreds) THEN NoAuth
      ELSE Auth(GetProp(gitCreds[2], "username"), GetProp(gitCreds[2], "password"))

saveGitAuth_keyedByUrl(jar, url, auth) ==
  CookiesSet(jar, GIT_PREFIX \o url, JSONStringify(auth[2]))

saveGitAuth(jar, url, auth) ==
  CookiesSet(jar, CookieKey(url), JSONStringify(auth[2]))

\* ------------------------------------------------------------------------
\* The sandbox filesystem (WebContainer fs), addressed relative to workdir.
\* A tree maps a node (the sequence of its segments below workdir) to its
\* kind and content; the workdir itself, <<>>, is always a directory.
\* ------------------------------------------------------------------------

DOTDOT == <<".", ".">>

\* lexical resolution of a relative path against workdir; a path that climbs
\* above workdir is outside the sandbox
RECURSIVE ResolveParts(_, _)
ResolveParts(parts, acc) ==
  IF parts = <<>> THEN <<"ok", acc>>
  ELSE IF Head(parts) = <<>> \/ Head(parts) = DOT THEN ResolveParts(Tail(parts), acc)
  ELSE IF Head(parts) = DOTDOT
    THEN IF acc = <<>> THEN <<"outside", <<>>>>
         ELSE ResolveParts(Tail(parts), SubSeq(acc, 1, Len(acc) - 1))
  ELSE ResolveParts(Tail(parts), Append(acc, Head(parts)))

SbxResolve(rel) == ResolveParts(Split(rel), <<>>)

SbxExists(tree, n) == n = <<>> \/ n \in DOMAIN tree
SbxIsDir(tree, n) == n = <<>> \/ (n \in DOMAIN tree /\ tree[n].kind = "dir")
SbxIsFile(tree, n) == n \in DOMAIN tree /\ tree[n].kind = "file"
Parent(n) == SubSeq(n, 1, Len(n) - 1)
IsPrefix(a, b) == Len(a) <= Len(b) /\ SubSeq(b, 1, Len(a)) = a

File(data) == [kind |-> "file", data |-> data]
Dir == [kind |-> "dir", data |-> "-"]

Put(f, k, v) == [x \in DOMAIN f \cup {k} |-> IF x = k THEN v ELSE f[x]]
Restrict(f, S) == [x \in S |-> f[x]]

Ok(v) == <<"ok", v>>
Err(e) == <<"error", e>>
IsOk(r) == r[1] = "ok"

\* a JavaScript Error: the message and the properties set on it
ErrorObj(message, code, errno, syscall, path) ==
  [message |-> message, code |-> code, errno |-> errno, syscall |-> syscall, path |-> path]

\* an error raised by the sandbox itself: its properties are the sandbox's own
Opaque == <<"opaque">>
SandboxError == ErrorObj(<<"sandbox error">>, Opaque, Opaque, Opaque, Opaque)

\* each sandbox call returns <<result, tree'>>
SbxWriteFile(tree, rel, data) ==
  LET r == SbxResolve(rel)
      n == r[2]
  IN  IF r[1] = "ok" /\ n # <<>> /\ SbxIsDir(tree, Parent(n)) /\ ~SbxIsDir(tree, n)
        THEN <<Ok("-"), Put(tree, n, File(data))>>
        ELSE <<Err(SandboxError), tree>>

SbxReadFile(tree, rel) ==
  LET r == SbxResolve(rel)
  IN  IF r[1] = "ok" /\ SbxIsFile(tree, r[2])
        THEN <<Ok(tree[r[2]].data), tree>>
        ELSE <<Err(SandboxError), tree>>

\* readdir(rel, {withFileTypes: true}): the Dirents of the directory
SbxReaddir(tree, rel) ==
  LET r == SbxResolve(rel)
      n == r[2]
  IN  IF r[1] = "ok" /\ SbxIsDir(tree, n)
        THEN <<Ok({[name |-> m[Len(m)], kind |-> tree[m].kind] :
                     m \in {x \in DOMAIN tree : Len(x) = Len(n) + 1 /\ IsPrefix(n, x)}}),
               tree>>
        ELSE <<Err(SandboxError), tree>>

Prefixes(n) == {SubSeq(n, 1, k) : k \in 1..Len(n)}

SbxMkdir(tree, rel) ==
  LET r == SbxResolve(rel)
      n == r[2]
  IN  IF r[1] = "ok" /\ \A m \in Prefixes(n) : ~SbxIsFile(tree, m)
        THEN <<Ok("-"), [x \in DOMAIN tree \cup Prefixes(n) |->
                           IF x \in DOMAIN tree THEN tree[x] ELSE Dir]>>
        ELSE <<Err(SandboxError), tree>>

SbxRm(tree, rel, recursive) ==
  LET r == SbxResolve(rel)
      n == r[2]
  IN  IF r[1] = "ok" /\ n \in DOMAIN tree /\ (recursive \/ SbxIsFile(tree, n))
        THEN <<Ok("-"), Restrict(tree, {x \in DOMAIN tree : ~IsPrefix(n, x)})>>
        ELSE <<Err(SandboxError), tree>>

\* ------------------------------------------------------------------------
\* Bounds and the values the environment draws from
\* ------------------------------------------------------------------------

\* calls of gitClone / gitPush / gitPull in one behaviour
MaxCalls == 2
\* adapter calls the engine makes in one behaviour of Spec
MaxWrites == 2

Calls == 1..MaxCalls

\* webcontainer.workdir
WORKDIR == <<"/", "w">>

\* remote URLs: two repositories on host a, one on host b
URL_A_R == <<"h", ":", "/", "/", "a", "/", "r">>
URL_A_S == <<"h", ":", "/", "/", "a", "/", "s">>
URL_B_R == <<"h", ":", "/", "/", "b", "/", "r">>
Urls == {URL_A_R, URL_A_S, URL_B_R}
\* the URLs the user clones
CloneUrls == {URL_A_R, URL_B_R}
NoUrl == <<>>

\* what the user types at prompt(): a string, or null when dismissed
UsernameAnswers == {Str("alice"), Null}
PasswordAnswers == {Str("secret"), Null}

\* the cookie jar found at page load: empty, a credential saved by an earlier
\* session, or a cookie that is not JSON
InitialJars ==
  { {},
    {<<CookieKey(URL_A_R), JSONStringify([username |-> Str("bob"), password |-> Str("hunter")])>>},
    {<<CookieKey(URL_A_R), GARBAGE>>} }

\* what the engine writes: the data and the encoding option of a writeFile call
\* (isomorphic-git always passes an options object to writeFile)
Writes == {[data |-> "d1", options |-> <<"empty", "-">>],
           [data |-> "d2", options |-> <<"encoding", "utf8">>]}

\* absolute paths the engine hands to the adapter
P_A == <<"/", "w", "/", "a">>
P_A_SLASH == <<"/", "w", "/", "a", "/">>
P_B == <<"/", "w", "/", "b">>
OrchPaths == {P_A, P_A_SLASH, P_B}

\* the paths of the adapter's own specification: the workdir itself, a
\* directory, a nested file behind a repeated separator, a file named like
\* the workdir, a path outside the workdir and the empty string
P_W == <<"/", "w">>
P_D == <<"/", "w", "/", "d">>
P_D_A == <<"/", "w", "/", "/", "d", "/", "a">>
P_W_W == <<"/", "w", "/", "w">>
P_X == <<"/", "x">>
P_EMPTY == <<>>
FsPaths == {P_W, P_A, P_A_SLASH, P_D, P_D_A, P_W_W, P_X, P_EMPTY}

\* adapter calls in one behaviour of SpecFs
MaxFsCalls == 2

\* the characters and the longest string of SpecPath
MaxLen == 4
Chars == {"/", "a", "."}

\* ------------------------------------------------------------------------
\* State
\* ------------------------------------------------------------------------

VARIABLES
  ready,     \* webcontainer, fs and ready of useGit, set together on mount
  cookies,   \* document.cookie as js-cookie sees it: a set of <<name, value>>
  heap,      \* the ledger objects alive: id -> set of <<relativePath, {data, encoding}>>
  fileData,  \* fileData.current: the id of the current ledger object
  sbx,       \* the sandbox tree
  config,    \* remote.origin.url of the repository in the sandbox
  slot,      \* one record per call of gitClone / gitPush / gitPull
  calls,     \* calls made so far
  fsLeft,    \* adapter calls the engine may still make
  last,      \* the last adapter call: its arguments, result and sandbox calls
  calc       \* a pathUtils call: the function, its arguments and its result

vars == <<ready, cookies, heap, fileData, sbx, config, slot, calls, fsLeft, last, calc>>

NoResult == <<"none", <<>>, 0>>
Thrown(msg) == <<"thrown", msg, 0>>
Resolved == <<"resolved", <<>>, 0>>
Returned(workdir, data) == <<"returned", workdir, data>>

IdleSlot ==
  [kind |-> "none", pc |-> "idle", url |-> NoUrl, header |-> NoAuth,
   auth |-> NoAuth, authState |-> "none", result |-> NoResult,
   prompts |-> 0, engineCalls |-> 0, didReset |-> FALSE, toasts |-> {},
   log |-> <<>>, own |-> <<>>, overlapped |-> FALSE, fsCalls |-> 0]

NoCall ==
  [op |-> "none", path |-> <<>>, options |-> <<"undefined", "-">>, result |-> Ok("-"),
   sbxCalls |-> <<>>]
NoCalc == [fn |-> "none", from |-> <<>>, to |-> <<>>, out |-> <<>>]

ObjIds == 1..(MaxCalls + 2)
NewId(h) == CHOOSE i \in ObjIds : i \notin DOMAIN h /\ \A j \in ObjIds : j < i => j \in DOMAIN h

\* ledger objects no longer referenced are collected
Referenced(fd, sl) == {fd} \cup {sl[c].result[3] : c \in {x \in Calls : sl[x].result[1] = "returned"}}
Collect(h, fd, sl) == Restrict(h, DOMAIN h \cap Referenced(fd, sl))

LedgerPut_keepsOld(obj, key, value) == obj \cup {<<key, value>>}

\* record.current[relativePath] = value: a property assignment
LedgerPut(obj, key, value) == {e \in obj : e[1] # key} \cup {<<key, value>>}

InFlight(c) == slot[c].pc \in {"getConfig", "engine"}
CloneInFlight(c) == slot[c].kind = "clone" /\ slot[c].pc = "engine"

\* the Authorization header computed from a cached credential, if any
BasicHeader(auth) == IF auth = NoAuth THEN NoAuth ELSE <<"Basic", auth[2]>>

Init ==
  /\ ready = FALSE
  /\ cookies \in InitialJars
  /\ heap = [i \in {1} |-> {}]
  /\ fileData = 1
  /\ sbx = <<>>
  /\ config = NoUrl
  /\ slot = [c \in Calls |-> IdleSlot]
  /\ calls = 0
  /\ fsLeft = MaxWrites
  /\ last = NoCall
  /\ calc = NoCalc

\* the useEffect of useGit: the webcontainer promise resolves
Mount ==
  /\ ~ready
  /\ ready' = TRUE
  /\ LET id == NewId(heap)
     IN  /\ fileData' = id
         /\ heap' = Collect(Put(heap, id, {}), id, slot)
  /\ UNCHANGED <<cookies, sbx, config, slot, calls, fsLeft, last, calc>>

NotInitialized(c, kind) ==
  slot' = [slot EXCEPT ![c] = [IdleSlot EXCEPT !.kind = kind, !.pc = "done",
                                 !.result = Thrown("Webcontainer not initialized")]]

gitClone_keepsLedger(url) ==
  /\ calls < MaxCalls
  /\ calls' = calls + 1
  /\ LET c == calls + 1
     IN  IF ~ready
           THEN NotInitialized(c, "clone")
           ELSE slot' = [slot EXCEPT ![c] =
                  [IdleSlot EXCEPT !.kind = "clone", !.pc = "engine", !.url = url,
                     !.header = BasicHeader(lookupSavedPassword(cookies, url)),
                     !.engineCalls = 1]]
  /\ UNCHANGED <<ready, cookies, heap, fileData, sbx, config, fsLeft, last, calc>>

gitClone_resetsFirst(url) ==
  /\ calls < MaxCalls
  /\ calls' = calls + 1
  /\ LET c == calls + 1
         id == NewId(heap)
         sl == [slot EXCEPT ![c] =
                  IF ~ready
                    THEN [IdleSlot EXCEPT !.kind = "clone", !.pc = "done",
                            !.result = Thrown("Webcontainer not initialized")]
                    ELSE [IdleSlot EXCEPT !.kind = "clone", !.pc = "engine", !.url = url,
                            !.header = BasicHeader(lookupSavedPassword(cookies, url)),
                            !.engineCalls = 1, !.didReset = TRUE]]
     IN  /\ slot' = sl
         /\ fileData' = id
         /\ heap' = Collect(Put(heap, id, {}), id, sl)
  /\ UNCHANGED <<ready, cookies, sbx, config, fsLeft, last, calc>>

\* gitClone: the guard, the reset of fileData.current, the headers, and the
\* call of git.clone
gitClone(url) ==
  /\ calls < MaxCalls
  /\ calls' = calls + 1
  /\ LET c == calls + 1
     IN  IF ~ready
           THEN /\ NotInitialized(c, "clone")
                /\ UNCHANGED <<heap, fileData>>
           ELSE LET id == NewId(heap)
                    others == {x \in Calls : CloneInFlight(x)}
                    started == [IdleSlot EXCEPT !.kind = "clone", !.pc = "engine", !.url = url,
                                  !.header = BasicHeader(lookupSavedPassword(cookies, url)),
                                  !.engineCalls = 1, !.didReset = TRUE,
                                  !.overlapped = (others # {})]
                    sl == [x \in Calls |->
                             IF x = c THEN started
                             ELSE IF x \in others THEN [slot[x] EXCEPT !.overlapped = TRUE]
                             ELSE slot[x]]
                IN  /\ slot' = sl
                    /\ fileData' = id
                    /\ heap' = Collect(Put(heap, id, {}), id, sl)
  /\ UNCHANGED <<ready, cookies, sbx, config, fsLeft, last, calc>>

gitPush(remote, branch) ==
  /\ calls < MaxCalls
  /\ calls' = calls + 1
  /\ LET c == calls + 1
     IN  IF ~ready
           THEN NotInitialized(c, "push")
           ELSE slot' = [slot EXCEPT ![c] =
                  [IdleSlot EXCEPT !.kind = "push", !.pc = "engine",
                     !.url = IF remote = "origin" THEN config ELSE NoUrl,
                     !.engineCalls = 1]]
  /\ UNCHANGED <<ready, cookies, heap, fileData, sbx, config, fsLeft, last, calc>>

gitPull ==
  /\ calls < MaxCalls
  /\ calls' = calls + 1
  /\ LET c == calls + 1
     IN  IF ~ready
           THEN NotInitialized(c, "pull")
           ELSE slot' = [slot EXCEPT ![c] = [IdleSlot EXCEPT !.kind = "pull", !.pc = "getConfig"]]
  /\ UNCHANGED <<ready, cookies, heap, fileData, sbx, config, fsLeft, last, calc>>

PullGotConfig_skipsCheck(c) ==
  /\ slot[c].kind = "pull" /\ slot[c].pc = "getConfig"
  /\ slot' = [slot EXCEPT ![c].pc = "engine", ![c].url = config,
                ![c].engineCalls = slot[c].engineCalls + 1]
  /\ UNCHANGED <<ready, cookies, heap, fileData, sbx, config, calls, fsLeft, last, calc>>

\* gitPull after await git.getConfig
PullGotConfig(c) ==
  /\ slot[c].kind = "pull" /\ slot[c].pc = "getConfig"
  /\ LET remoteUrl == config
     IN  IF remoteUrl = NoUrl
           THEN slot' = [slot EXCEPT ![c].pc = "done",
                                     ![c].result = Thrown("No remote repository found")]
           ELSE slot' = [slot EXCEPT ![c].pc = "engine", ![c].url = remoteUrl,
                           ![c].header = BasicHeader(lookupSavedPassword(cookies, remoteUrl)),
                           ![c].engineCalls = slot[c].engineCalls + 1]
  /\ UNCHANGED <<ready, cookies, heap, fileData, sbx, config, calls, fsLeft, last, calc>>

OnAuth_alwaysPrompts(c) ==
  /\ slot[c].pc = "engine" /\ slot[c].authState = "none" /\ slot[c].url # NoUrl
  /\ \/ \E u \in UsernameAnswers, p \in PasswordAnswers :
          slot' = [slot EXCEPT ![c].auth = Auth(u, p), ![c].authState = "provided",
                               ![c].prompts = slot[c].prompts + 3]
     \/ slot' = [slot EXCEPT ![c].auth = Cancel, ![c].authState = "cancelled",
                             ![c].prompts = slot[c].prompts + 1]
  /\ UNCHANGED <<ready, cookies, heap, fileData, sbx, config, calls, fsLeft, last, calc>>

\* the onAuth callback: confirm() is one dialog, the two prompt() two more
OnAuth(c) ==
  /\ slot[c].pc = "engine" /\ slot[c].authState = "none" /\ slot[c].url # NoUrl
  /\ LET auth == lookupSavedPassword(cookies, slot[c].url)
     IN  IF auth # NoAuth
           THEN slot' = [slot EXCEPT ![c].auth = auth, ![c].authState = "provided"]
           ELSE \/ \E u \in UsernameAnswers, p \in PasswordAnswers :
                     slot' = [slot EXCEPT ![c].auth = Auth(u, p), ![c].authState = "provided",
                                          ![c].prompts = slot[c].prompts + 3]
                \/ slot' = [slot EXCEPT ![c].auth = Cancel, ![c].authState = "cancelled",
                                        ![c].prompts = slot[c].prompts + 1]
  /\ UNCHANGED <<ready, cookies, heap, fileData, sbx, config, calls, fsLeft, last, calc>>

OnAuthFailure_evicts(c) ==
  /\ slot[c].pc = "engine" /\ slot[c].authState = "provided"
  /\ slot' = [slot EXCEPT ![c].authState = "rejected",
                ![c].toasts = @ \cup {<<"error", "Error Authenticating with", DomainOf(slot[c].url)>>}]
  /\ cookies' = {k \in cookies : k[1] # CookieKey(slot[c].url)}
  /\ UNCHANGED <<ready, heap, fileData, sbx, config, calls, fsLeft, last, calc>>

OnAuthFailure_asksAgain(c) ==
  /\ slot[c].pc = "engine" /\ slot[c].authState = "provided"
  /\ slot' = [slot EXCEPT ![c].authState = "none", ![c].auth = NoAuth,
                ![c].toasts = @ \cup {<<"error", "Error Authenticating with", DomainOf(slot[c].url)>>}]
  /\ UNCHANGED <<ready, cookies, heap, fileData, sbx, config, calls, fsLeft, last, calc>>

\* the onAuthFailure callback: a toast naming the host, nothing returned
OnAuthFailure(c) ==
  /\ slot[c].pc = "engine" /\ slot[c].authState = "provided"
  /\ slot' = [slot EXCEPT ![c].authState = "rejected",
                ![c].toasts = @ \cup {<<"error", "Error Authenticating with", DomainOf(slot[c].url)>>}]
  /\ UNCHANGED <<ready, cookies, heap, fileData, sbx, config, calls, fsLeft, last, calc>>

\* the onAuthSuccess callback
OnAuthSuccess(c) ==
  /\ slot[c].pc = "engine" /\ slot[c].authState = "provided"
  /\ cookies' = saveGitAuth(cookies, slot[c].url, slot[c].auth)
  /\ slot' = [slot EXCEPT ![c].authState = "accepted"]
  /\ UNCHANGED <<ready, heap, fileData, sbx, config, calls, fsLeft, last, calc>>

\* git.clone / git.push / git.pull resolves
EngineSucceed(c) ==
  /\ slot[c].pc = "engine" /\ slot[c].authState \in {"none", "accepted"}
  /\ slot[c].url # NoUrl
  /\ IF slot[c].kind = "clone"
       THEN LET id == NewId(heap)
                sl == [slot EXCEPT ![c].pc = "done", ![c].result = Returned(WORKDIR, id)]
            IN  /\ slot' = sl
                /\ heap' = Collect(Put(heap, id, heap[fileData]), fileData, sl)
                /\ config' = slot[c].url
       ELSE /\ slot' = [slot EXCEPT ![c].pc = "done", ![c].result = Resolved,
                          ![c].toasts = @ \cup
                            {IF slot[c].kind = "push"
                               THEN <<"success", "Successfully pushed to", <<>>>>
                               ELSE <<"success", "Git pull successful", <<>>>>}]
            /\ UNCHANGED <<heap, config>>
  /\ UNCHANGED <<ready, cookies, fileData, sbx, calls, fsLeft, last, calc>>

EngineError(c) ==
  CASE slot[c].authState = "cancelled" -> "UserCanceledError"
    [] slot[c].authState = "rejected" -> "HttpError 401"
    [] OTHER -> "engine error"

\* git.clone / git.push / git.pull rejects: the catch block rethrows
EngineFail(c) ==
  /\ slot[c].pc = "engine"
  /\ slot' = [slot EXCEPT ![c].pc = "done", ![c].result = Thrown(EngineError(c)),
                ![c].toasts = IF slot[c].kind = "push"
                                THEN @ \cup {<<"error", "Failed to push changes", <<>>>>}
                                ELSE @]
  /\ UNCHANGED <<ready, cookies, heap, fileData, sbx, config, calls, fsLeft, last, calc>>

\* ------------------------------------------------------------------------
\* The filesystem adapter getFs(webcontainer, record).promises
\* ------------------------------------------------------------------------

\* the options bag of a call: absent, or an object with one recognised key
NoOptions == <<"undefined", "-">>
EmptyOptions == <<"empty", "-">>
Option(key, value) == <<key, value>>
EncodingOf(options) == IF options[1] = "encoding" THEN Str(options[2]) ELSE Undefined

Number(n) == <<"number", n>>

SandboxCall(name, rel, arg) == <<name, rel, arg>>

\* what one adapter call comes to: its result, the tree it leaves, the sandbox
\* calls it issued and the ledger object it leaves
Outcome(result, tree, sbxCalls, ledger) ==
  [result |-> result, tree |-> tree, sbxCalls |-> sbxCalls, ledger |-> ledger]

readFileCall_passesPath(tree, ledger, path, options) ==
  LET encoding == EncodingOf(options)
      r == SbxReadFile(tree, path)
  IN  Outcome(IF IsOk(r[1]) THEN Ok([data |-> r[1][2], encoding |-> encoding]) ELSE r[1],
              r[2], <<SandboxCall("readFile", path, encoding)>>, ledger)

readFileCall(tree, ledger, path, options) ==
  LET encoding == EncodingOf(options)
      relativePath == relative(WORKDIR, path)
      r == SbxReadFile(tree, relativePath)
  IN  Outcome(IF IsOk(r[1]) THEN Ok([data |-> r[1][2], encoding |-> encoding]) ELSE r[1],
              r[2], <<SandboxCall("readFile", relativePath, encoding)>>, ledger)

\* options.encoding of an absent options bag is a TypeError, thrown first
writeFileCall(tree, ledger, path, data, options) ==
  LET encoding == EncodingOf(options)
      relativePath == relative(WORKDIR, path)
      r == SbxWriteFile(tree, relativePath, data)
  IN  IF options = NoOptions
        THEN Outcome(Err(ErrorObj(<<"TypeError">>, Undefined, Undefined, Undefined, Undefined)),
                     tree, <<>>, ledger)
        ELSE Outcome(r[1], r[2], <<SandboxCall("writeFile", relativePath, encoding)>>,
                     LedgerPut(ledger, relativePath, [data |-> data, encoding |-> encoding]))

\* { ...options, recursive: true }
mkdirCall(tree, ledger, path, options) ==
  LET relativePath == relative(WORKDIR, path)
      r == SbxMkdir(tree, relativePath)
  IN  Outcome(r[1], r[2], <<SandboxCall("mkdir", relativePath, Option("recursive", TRUE))>>, ledger)

\* without withFileTypes the listing is the names alone
readdirCall(tree, ledger, path, options) ==
  LET relativePath == relative(WORKDIR, path)
      r == SbxReaddir(tree, relativePath)
  IN  Outcome(IF IsOk(r[1]) /\ options # Option("withFileTypes", TRUE)
                THEN Ok({e.name : e \in r[1][2]}) ELSE r[1],
              r[2], <<SandboxCall("readdir", relativePath, options)>>, ledger)

\* { ...(options || {}) }
rmCall(tree, ledger, path, options) ==
  LET relativePath == relative(WORKDIR, path)
      recursive == options = Option("recursive", TRUE)
      r == SbxRm(tree, relativePath, recursive)
  IN  Outcome(r[1], r[2], <<SandboxCall("rm", relativePath, Option("recursive", recursive))>>, ledger)

\* { recursive: true, ...options }: a recursive key of the caller comes last
rmdirCall(tree, ledger, path, options) ==
  LET relativePath == relative(WORKDIR, path)
      recursive == IF options[1] = "recursive" THEN options[2] ELSE TRUE
      r == SbxRm(tree, relativePath, recursive)
  IN  Outcome(r[1], r[2], <<SandboxCall("rm", relativePath, Option("recursive", recursive))>>, ledger)

unlinkCall(tree, ledger, path) ==
  LET relativePath == relative(WORKDIR, path)
      r == SbxRm(tree, relativePath, FALSE)
  IN  Outcome(r[1], r[2], <<SandboxCall("rm", relativePath, Option("recursive", FALSE))>>, ledger)

\* the error the catch block of stat builds
StatError(path) ==
  ErrorObj(<<"ENOENT: no such file or directory, stat", path>>,
           Str("ENOENT"), Number(-2), Str("stat"), Str(path))

\* the object stat returns; mtimeMs, the clock, is left out
\* 0o666 = 438
StatOf(fileInfo) ==
  [isFile |-> fileInfo.kind = "file", isDirectory |-> fileInfo.kind = "dir",
   isSymbolicLink |-> FALSE, size |-> 1, mode |-> 438, uid |-> 1000, gid |-> 1000]

statCall_errorNamesRelativePath(tree, ledger, path) ==
  LET relativePath == relative(WORKDIR, path)
      r == SbxReaddir(tree, dirname(relativePath))
      name == basename(relativePath, <<>>)
      found == IF IsOk(r[1]) THEN {x \in r[1][2] : x.name = name} ELSE {}
  IN  Outcome(IF found = {} THEN Err(StatError(relativePath)) ELSE Ok(StatOf(CHOOSE x \in found : TRUE)),
              r[2],
              <<SandboxCall("readdir", dirname(relativePath), Option("withFileTypes", TRUE))>>,
              ledger)

statCall(tree, ledger, path) ==
  LET relativePath == relative(WORKDIR, path)
      r == SbxReaddir(tree, dirname(relativePath))
      name == basename(relativePath, <<>>)
      found == IF IsOk(r[1]) THEN {x \in r[1][2] : x.name = name} ELSE {}
  IN  Outcome(IF found = {} THEN Err(StatError(path)) ELSE Ok(StatOf(CHOOSE x \in found : TRUE)),
              r[2],
              <<SandboxCall("readdir", dirname(relativePath), Option("withFileTypes", TRUE))>>,
              ledger)

\* getFs(webcontainer, record).promises.stat(path)
lstatCall(tree, ledger, path) == statCall(tree, ledger, path)

\* new Error(...) with nothing set on it but the message
readlinkCall(tree, ledger, path) ==
  Outcome(Err(ErrorObj(<<"EINVAL: invalid argument, readlink", path>>,
                       Undefined, Undefined, Undefined, Undefined)),
          tree, <<>>, ledger)

symlinkCall_pretends(tree, ledger, target, path) == Outcome(Ok("-"), tree, <<>>, ledger)

symlinkCall(tree, ledger, target, path) ==
  Outcome(Err(ErrorObj(<<"EPERM: operation not permitted, symlink", target, path>>,
                       Undefined, Undefined, Undefined, Undefined)),
          tree, <<>>, ledger)

chmodCall(tree, ledger, path, mode) == Outcome(Ok("-"), tree, <<>>, ledger)

\* the engine of call c is running and makes one more adapter call
Engine(c) == slot[c].pc = "engine" /\ fsLeft > 0

\* every clone in flight sees a writeFile call in its log, and the clone
\* whose engine made the call also in the log of its own calls
Logged(c, op, call) ==
  [x \in Calls |->
     LET counted == IF x = c THEN [slot[x] EXCEPT !.fsCalls = @ + 1] ELSE slot[x]
     IN  IF op = "writeFile" /\ CloneInFlight(x)
           THEN [counted EXCEPT !.log = Append(@, call),
                                !.own = IF x = c THEN Append(@, call) ELSE @]
           ELSE counted]

\* one adapter call by the engine of call c, with outcome o
Adapter(c, op, path, options, o) ==
  /\ Engine(c)
  /\ sbx' = o.tree
  /\ heap' = [heap EXCEPT ![fileData] = o.ledger]
  /\ last' = [op |-> op, path |-> path, options |-> options, result |-> o.result,
              sbxCalls |-> o.sbxCalls]
  /\ fsLeft' = fsLeft - 1
  /\ UNCHANGED <<ready, cookies, fileData, config, calls, calc>>

readFile(c, path, options) ==
  /\ Adapter(c, "readFile", path, options, readFileCall(sbx, heap[fileData], path, options))
  /\ slot' = Logged(c, "readFile", <<>>)

writeFile(c, path, data, options) ==
  /\ Adapter(c, "writeFile", path, options, writeFileCall(sbx, heap[fileData], path, data, options))
  /\ slot' = Logged(c, "writeFile", [path |-> path, data |-> data, encoding |-> EncodingOf(options)])

mkdir(c, path, options) ==
  /\ Adapter(c, "mkdir", path, options, mkdirCall(sbx, heap[fileData], path, options))
  /\ slot' = Logged(c, "mkdir", <<>>)

readdir(c, path, options) ==
  /\ Adapter(c, "readdir", path, options, readdirCall(sbx, heap[fileData], path, options))
  /\ slot' = Logged(c, "readdir", <<>>)

rm(c, path, options) ==
  /\ Adapter(c, "rm", path, options, rmCall(sbx, heap[fileData], path, options))
  /\ slot' = Logged(c, "rm", <<>>)

rmdir(c, path, options) ==
  /\ Adapter(c, "rmdir", path, options, rmdirCall(sbx, heap[fileData], path, options))
  /\ slot' = Logged(c, "rmdir", <<>>)

unlink(c, path) ==
  /\ Adapter(c, "unlink", path, NoOptions, unlinkCall(sbx, heap[fileData], path))
  /\ slot' = Logged(c, "unlink", <<>>)

stat(c, path) ==
  /\ Adapter(c, "stat", path, NoOptions, statCall(sbx, heap[fileData], path))
  /\ slot' = Logged(c, "stat", <<>>)

lstat(c, path) ==
  /\ Adapter(c, "lstat", path, NoOptions, lstatCall(sbx, heap[fileData], path))
  /\ slot' = Logged(c, "lstat", <<>>)

readlink(c, path) ==
  /\ Adapter(c, "readlink", path, NoOptions, readlinkCall(sbx, heap[fileData], path))
  /\ slot' = Logged(c, "readlink", <<>>)

symlink(c, target, path) ==
  /\ Adapter(c, "symlink", path, NoOptions, symlinkCall(sbx, heap[fileData], target, path))
  /\ slot' = Logged(c, "symlink", <<>>)

chmod(c, path, mode) ==
  /\ Adapter(c, "chmod", path, NoOptions, chmodCall(sbx, heap[fileData], path, mode))
  /\ slot' = Logged(c, "chmod", <<>>)

\* the caller serializes the operations: none is started while one is in flight
Serial == \A c \in Calls : ~InFlight(c)

Start ==
  \/ Mount
  \/ Serial /\ \E url \in CloneUrls : gitClone(url)
  \/ Serial /\ gitPush("origin", "main")
  \/ Serial /\ gitPull

\* the operations with the authentication callbacks
Next ==
  \/ Start
  \/ \E c \in Calls :
       \/ PullGotConfig(c)
       \/ OnAuth(c)
       \/ OnAuthFailure(c)
       \/ OnAuthSuccess(c)
       \/ EngineSucceed(c)
       \/ EngineFail(c)

Spec == Init /\ [][Next]_vars

InitLedger == Init /\ cookies = {}

\* the operations with the engine's writes through the adapter
NextLedger ==
  \/ Start
  \/ \E c \in Calls :
       \/ PullGotConfig(c)
       \/ EngineSucceed(c)
       \/ EngineFail(c)
       \/ \E p \in OrchPaths, w \in Writes : writeFile(c, p, w.data, w.options)

SpecLedger == InitLedger /\ [][NextLedger]_vars
\* ------------------------------------------------------------------------
\* The adapter on its own: a clone is in flight and the engine calls the
\* adapter, on an empty sandbox or on one that holds a project
\* ------------------------------------------------------------------------

SEG_A == <<"a">>
SEG_D == <<"d">>
SEG_W == <<"w">>

EmptyTree == <<>>
ProjectTree ==
  [n \in {<<SEG_A>>, <<SEG_D>>, <<SEG_D, SEG_A>>, <<SEG_W>>} |->
     IF n = <<SEG_D>> THEN Dir
     ELSE IF n = <<SEG_D, SEG_A>> THEN File("d2")
     ELSE File("d1")]

InitFs ==
  /\ ready = TRUE
  /\ cookies = {}
  /\ heap = [i \in {1} |-> {}]
  /\ fileData = 1
  /\ sbx \in {EmptyTree, ProjectTree}
  /\ config = NoUrl
  /\ slot = [c \in Calls |->
               IF c = 1
                 THEN [IdleSlot EXCEPT !.kind = "clone", !.pc = "engine", !.url = URL_A_R,
                                       !.engineCalls = 1, !.didReset = TRUE]
                 ELSE IdleSlot]
  /\ calls = 1
  /\ fsLeft = MaxFsCalls
  /\ last = NoCall
  /\ calc = NoCalc

RecursiveOptions == {NoOptions, Option("recursive", TRUE), Option("recursive", FALSE)}

NextFs ==
  \E c \in Calls, p \in FsPaths :
    \/ \E o \in {NoOptions, Option("encoding", "utf8")} : readFile(c, p, o)
    \/ \E w \in Writes : writeFile(c, p, w.data, w.options)
    \/ \E o \in RecursiveOptions : mkdir(c, p, o)
    \/ \E o \in {NoOptions, Option("withFileTypes", TRUE)} : readdir(c, p, o)
    \/ \E o \in RecursiveOptions : rm(c, p, o)
    \/ \E o \in RecursiveOptions : rmdir(c, p, o)
    \/ unlink(c, p)
    \/ stat(c, p)
    \/ lstat(c, p)
    \/ readlink(c, p)
    \/ \E target \in {P_A, P_EMPTY} : symlink(c, target, p)
    \/ \E mode \in {420, 493} : chmod(c, p, mode)

SpecFs == InitFs /\ [][NextFs]_vars

\* ------------------------------------------------------------------------
\* pathUtils on its own: every pair of strings up to MaxLen
\* ------------------------------------------------------------------------

Strings == UNION {[1..n -> Chars] : n \in 0..MaxLen}

InitPath ==
  /\ ready = FALSE
  /\ cookies = {}
  /\ heap = [i \in {1} |-> {}]
  /\ fileData = 1
  /\ sbx = <<>>
  /\ config = NoUrl
  /\ slot = [c \in Calls |-> IdleSlot]
  /\ calls = 0
  /\ fsLeft = 0
  /\ last = NoCall
  /\ \E from \in Strings, to \in Strings :
       calc = [fn |-> "none", from |-> from, to |-> to, out |-> <<>>]

Rest == <<ready, cookies, heap, fileData, sbx, config, slot, calls, fsLeft, last>>

\* pathUtils.relative(from, to)
Relative ==
  /\ calc.fn = "none"
  /\ calc' = [calc EXCEPT !.fn = "relative", !.out = relative(calc.from, calc.to)]
  /\ UNCHANGED Rest

\* pathUtils.dirname(to)
Dirname ==
  /\ calc.fn = "none"
  /\ calc' = [calc EXCEPT !.fn = "dirname", !.out = dirname(calc.to)]
  /\ UNCHANGED Rest

\* pathUtils.basename(to, from): from is the extension
Basename ==
  /\ calc.fn = "none"
  /\ calc' = [calc EXCEPT !.fn = "basename", !.out = basename(calc.to, calc.from)]
  /\ UNCHANGED Rest

NextPath == Relative \/ Dirname \/ Basename

SpecPath == InitPath /\ [][NextPath]_vars

\* ------------------------------------------------------------------------
\* Clones on their own: the engine of a clone writes files, asks for a
\* credential, and resolves or rejects
\* ------------------------------------------------------------------------

\* what the engine of a clone writes
CloneWrites ==
  {[path |-> P_A, data |-> "d1", options |-> EmptyOptions],
   [path |-> P_B, data |-> "d2", options |-> Option("encoding", "utf8")]}

InitClones == Init /\ cookies = {}

\* the caller serializes the clones
NextCancel ==
  \/ Mount
  \/ Serial /\ gitClone(URL_A_R)
  \/ \E c \in Calls :
       \/ OnAuth(c)
       \/ OnAuthFailure(c)
       \/ OnAuthSuccess(c)
       \/ EngineSucceed(c)
       \/ EngineFail(c)
       \/ \E w \in CloneWrites : writeFile(c, w.path, w.data, w.options)

SpecCancel == InitClones /\ [][NextCancel]_vars

\* the caller starts a clone while another may be in flight
NextOverlap ==
  \/ Mount
  \/ gitClone(URL_A_R)
  \/ \E c \in Calls :
       \/ EngineSucceed(c)
       \/ EngineFail(c)
       \/ \E w \in CloneWrites : writeFile(c, w.path, w.data, w.options)

SpecOverlap == InitClones /\ [][NextOverlap]_vars

\* ------------------------------------------------------------------------
\* One clone from its start to its end: the engine writes and removes files
\* in an empty sandbox, and the clone resolves or rejects
\* ------------------------------------------------------------------------

InitHandOff == InitFs /\ sbx = EmptyTree

NextHandOff ==
  \E c \in Calls :
    \/ EngineSucceed(c)
    \/ EngineFail(c)
    \/ \E p \in FsPaths :
         \/ \E w \in Writes : writeFile(c, p, w.data, w.options)
         \/ mkdir(c, p, NoOptions)
         \/ \E o \in RecursiveOptions : rm(c, p, o)
         \/ rmdir(c, p, NoOptions)
         \/ unlink(c, p)

SpecHandOff == InitHandOff /\ [][NextHandOff]_vars

\* ------------------------------------------------------------------------
\* Properties
\* ------------------------------------------------------------------------

Returned_(c) == slot[c].result[1] = "returned"
SnapshotOf(c) == heap[slot[c].result[3]]
ValueOf(call) == [data |-> call.data, encoding |-> call.encoding]

OneEntryPerPath(obj) == \A e1, e2 \in obj : e1[1] = e2[1] => e1 = e2

\* C1: every ledger object (the current ledger and each snapshot a clone
\* returned) holds at most one entry per relative path, and when the last two
\* writeFile calls of a clone name the same path p, the ledger while the clone
\* runs, and the snapshot once it has returned, hold exactly one entry for the
\* relative path of p, with the data and encoding of the second call.
C1_LedgerOverwrites ==
  /\ \A id \in DOMAIN heap : OneEntryPerPath(heap[id])
  /\ \A c \in Calls :
       LET log == slot[c].log
           n == Len(log)
       IN  /\ slot[c].kind = "clone"
           /\ slot[c].pc = "engine" \/ Returned_(c)
           /\ n >= 2
           /\ log[n - 1].path = log[n].path
           => LET key == relative(WORKDIR, log[n].path)
                  obj == IF Returned_(c) THEN SnapshotOf(c) ELSE heap[fileData]
              IN  {e \in obj : e[1] = key} = {<<key, ValueOf(log[n])>>}

C1_Witness ==
  \E c \in Calls :
    /\ Returned_(c)
    /\ slot[c].log = <<[path |-> P_A, data |-> "d1", encoding |-> Undefined],
                       [path |-> P_A, data |-> "d2", encoding |-> Str("utf8")]>>
    /\ SnapshotOf(c) = {<<SEG_A, [data |-> "d2", encoding |-> Str("utf8")]>>}

\* the snapshot a log of writeFile calls calls for: for each relative path
\* written, the value of the last call that wrote it
ExpectedSnapshot(log) ==
  {<<relative(WORKDIR, log[i].path), ValueOf(log[i])>> :
     i \in {j \in 1..Len(log) :
              \A k \in (j + 1)..Len(log) :
                relative(WORKDIR, log[k].path) # relative(WORKDIR, log[j].path)}}

C2_Snapshot ==
  \A c \in Calls :
    Returned_(c) => /\ slot[c].result[2] = WORKDIR
                    /\ SnapshotOf(c) = ExpectedSnapshot(slot[c].log)

C2_Reset ==
  \A c \in Calls :
    slot[c].pc = "idle" /\ slot'[c].kind = "clone" /\ slot'[c].pc = "engine"
      => heap'[fileData'] = {}

C2_Kept ==
  \A c \in Calls :
    Returned_(c) => /\ slot'[c].result = slot[c].result
                    /\ heap'[slot[c].result[3]] = SnapshotOf(c)

\* C2: with the calls serialized, a clone that succeeds returns the workdir
\* and a snapshot that holds exactly the relative paths written through
\* writeFile since that clone started, each with its last {data, encoding};
\* every clone that starts leaves the ledger empty; and a snapshot that was
\* returned is changed by no later step.
C2_CloneReturnsOwnWrites == [](C2_Snapshot) /\ [][C2_Reset /\ C2_Kept]_vars

C2_Witness ==
  \E c1, c2 \in Calls :
    /\ c1 < c2 /\ Returned_(c1) /\ Returned_(c2)
    /\ {e[1] : e \in SnapshotOf(c1)} = {SEG_A}
    /\ {e[1] : e \in SnapshotOf(c2)} = {<<"b">>}

HostOf(url) == Split(url)[3]

C3_Saved ==
  \A c \in Calls :
    slot[c].authState = "provided" /\ slot'[c].authState = "accepted"
      => /\ CookiesGet(cookies', GIT_PREFIX \o HostOf(slot[c].url)) = JSONStringify(slot[c].auth[2])
         /\ \A url \in Urls :
              HostOf(url) = HostOf(slot[c].url) => lookupSavedPassword(cookies', url) = slot[c].auth

C3_OnePerHost == \A c1, c2 \in cookies : c1[1] = c2[1] => c1 = c2

\* C3: when onAuthSuccess runs for a call against url with the credential the
\* engine authenticated with, the cookie git:<host> holds that credential,
\* host being the third part of url split at '/', and the lookup of every URL
\* of that host returns exactly its username and password; the jar never
\* holds two cookies of one name.
C3_CredentialSavedPerHost == [](C3_OnePerHost) /\ [][C3_Saved]_vars

C3_Witness ==
  \E c \in Calls :
    /\ slot[c].authState = "accepted"
    /\ slot[c].url = URL_A_R
    /\ slot[c].auth = Auth(Str("alice"), Str("secret"))
    /\ lookupSavedPassword(cookies, URL_A_S) = Auth(Str("alice"), Str("secret"))
    /\ Cardinality(cookies) = 1

HasCachedCredential(jar, url) == CookiesGet(jar, GIT_PREFIX \o HostOf(url))[1] = "json"
CachedCredential(jar, url) ==
  LET text == CookiesGet(jar, GIT_PREFIX \o HostOf(url))
  IN  Auth(GetProp(text[2], "username"), GetProp(text[2], "password"))

C4_OnAuth ==
  \A c \in Calls :
    /\ slot[c].pc = "engine" /\ slot[c].authState = "none" /\ slot'[c].authState # "none"
         /\ HasCachedCredential(cookies, slot[c].url)
       => /\ slot'[c].auth = CachedCredential(cookies, slot[c].url)
          /\ slot'[c].prompts = slot[c].prompts
    /\ slot[c].pc = "engine" /\ slot'[c].prompts > slot[c].prompts
       => ~HasCachedCredential(cookies, slot[c].url)

C4_StaysCached ==
  \A url \in Urls : HasCachedCredential(cookies, url) => HasCachedCredential(cookies', url)

\* C4: an onAuth call for a URL whose host has a cached credential returns
\* that credential and shows no dialog; a dialog is shown only by an onAuth
\* call that finds no cached credential; and a host that has a cached
\* credential keeps one, so an operation (a push among them) that starts with
\* a cached credential for its host shows no dialog at all.
C4_CachedCredentialNoPrompt == [][C4_OnAuth /\ C4_StaysCached]_vars

C4_Witness ==
  \E c \in Calls :
    /\ slot[c].kind = "push" /\ slot[c].result = Resolved
    /\ slot[c].authState = "accepted"
    /\ slot[c].auth = Auth(Str("bob"), Str("hunter"))
    /\ slot[c].prompts = 0

NoRemote == Thrown("No remote repository found")

C5_Step ==
  \A c \in Calls :
    /\ slot[c].kind = "pull" /\ slot[c].pc = "getConfig" /\ slot'[c].pc # "getConfig"
         /\ config = NoUrl
       => /\ slot'[c].pc = "done" /\ slot'[c].result = NoRemote
          /\ cookies' = cookies /\ heap' = heap /\ fileData' = fileData
    /\ slot[c].pc = "idle" /\ slot'[c].kind = "pull"
       => cookies' = cookies /\ heap' = heap /\ fileData' = fileData

C5_Never ==
  \A c \in Calls :
    slot[c].result = NoRemote
      => slot[c].engineCalls = 0 /\ slot[c].prompts = 0 /\ slot[c].auth = NoAuth

\* C5: a pull that finds no remote.origin.url ends with the error 'No remote
\* repository found'; git.pull was not called in it, no dialog was shown, and
\* neither of its steps changed the cookie jar or the ledger.
C5_PullWithoutRemote == [](C5_Never) /\ [][C5_Step]_vars

C5_Witness ==
  \E c \in Calls : slot[c].kind = "pull" /\ slot[c].result = NoRemote /\ cookies # {}

NotInit == Thrown("Webcontainer not initialized")

C6_Step ==
  \A c \in Calls :
    slot[c].pc = "idle" /\ slot'[c].pc # "idle" /\ ~ready
      => /\ slot'[c].pc = "done" /\ slot'[c].result = NotInit
         /\ heap' = heap /\ fileData' = fileData /\ sbx' = sbx /\ last' = last
         /\ cookies' = cookies /\ config' = config

C6_Never ==
  \A c \in Calls :
    slot[c].result = NotInit
      => /\ slot[c].engineCalls = 0 /\ slot[c].prompts = 0 /\ slot[c].fsCalls = 0
         /\ ~slot[c].didReset

\* C6: a clone, push or pull called before the webcontainer is ready ends at
\* once with the error 'Webcontainer not initialized': the step changes
\* neither the ledger nor the sandbox nor the cookie jar, and in that call
\* the engine was not called, no adapter call was made, no dialog was shown
\* and the ledger was not reset.
C6_NotInitialized == [](C6_Never) /\ [][C6_Step]_vars

C6_Witness ==
  \E c1, c2 \in Calls :
    /\ slot[c1].kind = "clone" /\ slot[c1].result = NotInit
    /\ slot[c2].kind \in {"push", "pull"} /\ slot[c2].result = NotInit

\* the entries of the listing of the parent directory of the translated path
\* that are named name; none when the listing fails
ParentListing == SbxReaddir(sbx, dirname(relative(WORKDIR, last.path)))[1]
Matching(name) ==
  IF IsOk(ParentListing) THEN {x \in ParentListing[2] : x.name = name} ELSE {}

IsEnoent(result, path) ==
  /\ ~IsOk(result)
  /\ result[2].code = Str("ENOENT") /\ result[2].errno = Number(-2)
  /\ result[2].syscall = Str("stat") /\ result[2].path = Str(path)

StatAnswers(name) ==
  last.op = "stat" =>
    IF Matching(name) = {}
      THEN IsEnoent(last.result, last.path)
      ELSE \E x \in Matching(name) :
             last.result = Ok([isFile |-> x.kind = "file", isDirectory |-> x.kind = "dir",
                               isSymbolicLink |-> FALSE, size |-> 1, mode |-> 438,
                               uid |-> 1000, gid |-> 1000])

\* C7 as stated: the entry stat looks for is the one named basename(path),
\* the basename of the requested path.
C7_StatByRequestedBasename == StatAnswers(basename(last.path, <<>>))

C7_Frame ==
  fsLeft' # fsLeft /\ last'.op = "stat" => sbx' = sbx /\ heap' = heap /\ fileData' = fileData

\* C7, amended: stat(path) fails with ENOENT, errno -2, syscall 'stat' and the
\* requested path when the listing of the parent directory of the translated
\* path fails or has no entry named as the basename of the translated path;
\* otherwise it returns the synthetic stat of that entry (isSymbolicLink
\* false, mode 0o666, uid and gid 1000); it changes neither sandbox nor ledger.
C7_StatByTranslatedBasename ==
  [](StatAnswers(basename(relative(WORKDIR, last.path), <<>>))) /\ [][C7_Frame]_vars

C7_Witness ==
  /\ last.op = "stat" /\ last.path = P_A_SLASH
  /\ sbx = EmptyTree
  /\ IsEnoent(last.result, P_A_SLASH)

C8_Results ==
  /\ last.op \in {"readlink", "symlink"} => ~IsOk(last.result) /\ last.sbxCalls = <<>>
  /\ last.op = "chmod" => IsOk(last.result) /\ last.sbxCalls = <<>>

C8_Frame ==
  fsLeft' # fsLeft /\ last'.op \in {"readlink", "symlink", "chmod"}
    => sbx' = sbx /\ heap' = heap /\ fileData' = fileData

\* C8: every readlink and every symlink call fails and every chmod call
\* succeeds, whatever the path and the sandbox; none of them issues a
\* sandbox call or changes the sandbox or the ledger.
C8_LinksFailChmodSucceeds == [](C8_Results) /\ [][C8_Frame]_vars

C8_Witness ==
  /\ last.op = "symlink" /\ ~IsOk(last.result)
  /\ sbx = ProjectTree /\ last.path = P_X

HasShape(result, code, syscall, path) ==
  /\ ~IsOk(result)
  /\ result[2].code = Str(code)
  /\ result[2].syscall = Str(syscall)
  /\ result[2].path = Str(path)

\* C9: the error of stat carries code ENOENT, the error of readlink carries
\* code EINVAL, syscall readlink and the path, and the error of symlink
\* carries code EPERM, syscall symlink and the path.
C9_ErrorShapes ==
  /\ last.op = "stat" /\ ~IsOk(last.result) => HasShape(last.result, "ENOENT", "stat", last.path)
  /\ last.op = "readlink" => HasShape(last.result, "EINVAL", "readlink", last.path)
  /\ last.op = "symlink" => HasShape(last.result, "EPERM", "symlink", last.path)

IsAbsolute(p) == p # <<>> /\ p[1] = SLASH

\* POSIX resolution of an absolute path: '.' and empty segments dropped, '..'
\* applied, never above the root
RECURSIVE ResolveAbsolute(_, _)
ResolveAbsolute(parts, acc) ==
  IF parts = <<>> THEN acc
  ELSE IF Head(parts) = <<>> \/ Head(parts) = DOT THEN ResolveAbsolute(Tail(parts), acc)
  ELSE IF Head(parts) = DOTDOT
    THEN ResolveAbsolute(Tail(parts), IF acc = <<>> THEN acc ELSE SubSeq(acc, 1, Len(acc) - 1))
  ELSE ResolveAbsolute(Tail(parts), Append(acc, Head(parts)))

Rejoined(from, rel) == ResolveAbsolute(Split(from \o <<SLASH>> \o rel), <<>>)

\* C10: for absolute from and to, from joined with relative(from, to)
\* resolves to what to resolves to; relative is '.' when from and to are
\* equal once trailing separators are dropped; and relative("/a/b",
\* "/a/b/c") is "c".
C10_RelativeIsPosix ==
  /\ relative(<<"/", "a", "/", "b">>, <<"/", "a", "/", "b", "/", "c">>) = <<"c">>
  /\ calc.fn = "relative" /\ IsAbsolute(calc.from) /\ IsAbsolute(calc.to)
     => /\ Rejoined(calc.from, calc.out) = ResolveAbsolute(Split(calc.to), <<>>)
        /\ StripTrailingSlashes(calc.from) = StripTrailingSlashes(calc.to) => calc.out = DOT

HasLeadingSeparator(p) == p # <<>> /\ p[1] = SLASH

\* the path an adapter call of operation op on requested path p hands to the
\* sandbox: the translated path, and for stat and lstat its parent directory
SandboxPathOf(op, p) ==
  IF op \in {"stat", "lstat"} THEN dirname(relative(WORKDIR, p)) ELSE relative(WORKDIR, p)

C11_SandboxArguments ==
  \A i \in 1..Len(last.sbxCalls) :
    LET arg == last.sbxCalls[i][2]
    IN  /\ arg # <<>> /\ ~HasLeadingSeparator(arg)
        /\ arg = SandboxPathOf(last.op, last.path)
        /\ HasLeadingSeparator(last.path) => arg # last.path

C11_LedgerKeys ==
  \A id \in DOMAIN heap : \A e \in heap[id] :
    /\ e[1] # <<>> /\ ~HasLeadingSeparator(e[1])
    /\ \E p \in FsPaths : e[1] = relative(WORKDIR, p)
    /\ \A p \in FsPaths : HasLeadingSeparator(p) => e[1] # p

\* C11: the path of every sandbox call an adapter call issues is non-empty,
\* does not start with a separator, is the path translated from (workdir,
\* requested path) (its parent directory for stat and lstat) and is never the
\* absolute path the engine gave; the same holds of every key of every
\* ledger object. The requested paths include the workdir, paths with a
\* trailing or a repeated separator, a path outside the workdir and ''.
C11_RelativePathsOnly == C11_SandboxArguments /\ C11_LedgerKeys

C11_Witness ==
  /\ last.op = "writeFile" /\ last.path = P_X
  /\ last.sbxCalls[1][2] = <<".", ".", "/", "x">>
  /\ \E e \in heap[fileData] : e[1] = <<".", ".", "/", "x">>
  /\ \E e \in heap[fileData] : e[1] = DOT

FailedClone(c) == slot[c].kind = "clone" /\ slot[c].didReset /\ slot[c].result[1] = "thrown"

\* C12: a clone that failed or was cancelled returned no snapshot, and until
\* the next call starts the ledger holds no entry.
C12_FailedCloneLedgerDiscarded ==
  \A c \in Calls :
    /\ FailedClone(c) => slot[c].result[3] = 0
    /\ FailedClone(c) /\ c = calls => heap[fileData] = {}

C13_Step ==
  \A c \in Calls :
    slot'[c].kind \in {"push", "pull"} /\ slot'[c] # slot[c]
      => heap' = heap /\ fileData' = fileData

\* C13: no step of a push or of a pull (its start, an adapter call its
\* engine makes, writeFile among them, its end) changes the ledger.
C13_PushPullKeepLedger == [][C13_Step]_vars

\* the position of the last separator of s, 0 when it has none
LastSeparator(s) ==
  IF IncludesSlash(s) THEN CHOOSE i \in 1..Len(s) : s[i] = SLASH /\ \A j \in (i + 1)..Len(s) : s[j] # SLASH
  ELSE 0

\* what is left of p once its trailing separators, and then its last
\* remaining separator with everything after it, are gone
CutAtLastSeparator(p) ==
  LET s == StripTrailingSlashes(p)
  IN  SubSeq(s, 1, LastSeparator(s) - 1)

\* C14: dirname of a path without a separator is '.'; of any other path it is
\* the path without its trailing separators, cut at the last separator that
\* remains, or '/' when nothing is left.
C14_Dirname ==
  calc.fn = "dirname" =>
    IF ~IncludesSlash(calc.to) THEN calc.out = DOT
    ELSE IF CutAtLastSeparator(calc.to) = <<>> THEN calc.out = ROOT
    ELSE calc.out = CutAtLastSeparator(calc.to)

C14_Witness ==
  /\ calc.fn = "dirname"
  /\ calc.to = <<"a", "/", "a", "/">>
  /\ calc.out = <<"a">>

\* the one sandbox call a removal issues
Removal(recursive) ==
  <<SandboxCall("rm", relative(WORKDIR, last.path), Option("recursive", recursive))>>

\* C15: rmdir hands the sandbox remove recursive = true whatever its options,
\* unlink hands it recursive = false, and rm hands it the recursive flag of
\* its caller.
C15_RecursiveFlags ==
  /\ last.op = "rmdir" => last.sbxCalls = Removal(TRUE)
  /\ last.op = "unlink" => last.sbxCalls = Removal(FALSE)
  /\ last.op = "rm" => last.sbxCalls = Removal(last.options = Option("recursive", TRUE))

IsString(v) == v[1] = "string"
SuccessToasts(c) == {t \in slot[c].toasts : t[1] = "success"}

C16_Outcome ==
  \A c \in Calls :
    /\ slot[c].prompts > 0 /\ slot[c].authState # "cancelled"
       => /\ slot[c].auth[1] = "auth"
          /\ IsString(slot[c].auth[2].username) /\ IsString(slot[c].auth[2].password)
    /\ slot[c].authState = "cancelled"
       => /\ slot[c].auth = Cancel
          /\ slot[c].pc = "done" => slot[c].result[1] = "thrown" /\ SuccessToasts(c) = {}

C16_Frame ==
  \A c \in Calls : slot'[c].authState = "cancelled" /\ slot'[c] # slot[c] => cookies' = cookies

\* C16: an onAuth call that finds no cached credential, and so shows the
\* dialogs, ends either with a credential whose username and password are
\* both strings the user entered, or with a cancellation; a cancelled
\* operation ends with an error, reports no success and leaves the cookie jar
\* as it was.
C16_SuppliedOrCancelled == [](C16_Outcome) /\ [][C16_Frame]_vars

AuthNotice(c) == <<"error", "Error Authenticating with", HostOf(slot[c].url)>>
Ended(c) == slot[c].pc = "done"
Succeeded(c) == slot[c].result[1] \in {"returned", "resolved"}
Failed(c) == slot[c].result[1] = "thrown"

C17_State ==
  \A c \in Calls :
    /\ slot[c].engineCalls <= 1
    /\ Ended(c) <=> (Succeeded(c) \/ Failed(c))
    /\ Succeeded(c) => slot[c].authState \in {"none", "accepted"}
    /\ (\E t \in slot[c].toasts : t[2] = "Error Authenticating with")
         <=> slot[c].authState = "rejected"
    /\ slot[c].authState = "rejected" => AuthNotice(c) \in slot[c].toasts

C17_Step ==
  \A c \in Calls :
    /\ slot[c].authState = "provided" /\ slot'[c].authState = "rejected"
       => /\ slot'[c] = [slot[c] EXCEPT !.authState = "rejected",
                                         !.toasts = @ \cup {AuthNotice(c)}]
          /\ cookies' = cookies
    /\ slot[c].authState = "rejected" /\ slot'[c] # slot[c]
       => /\ slot'[c].pc = "done" /\ slot'[c].result = Thrown("HttpError 401")
          /\ slot'[c].prompts = slot[c].prompts
          /\ slot'[c].engineCalls = slot[c].engineCalls
    /\ slot[c].pc = "engine" /\ slot'[c].pc = "done" /\ slot'[c].result[1] = "thrown"
       => slot'[c].result = Thrown(EngineError(c))
    /\ Ended(c) => slot'[c] = slot[c]

\* C17: no call of clone, push or pull calls the engine's network operation
\* more than once; onAuthFailure adds the notice naming the host and changes
\* nothing else, and the call then ends with the engine's error, with no
\* further dialog and no further engine call; a call that fails throws the
\* error the engine gave; and a call has ended exactly when it has either
\* succeeded or failed, after which its outcome never changes.
C17_NoRetry == [](C17_State) /\ [][C17_Step]_vars

C17_Witness ==
  \E c \in Calls :
    /\ slot[c].kind = "pull" /\ Ended(c)
    /\ slot[c].authState = "rejected"
    /\ slot[c].auth = Auth(Str("alice"), Str("secret"))
    /\ slot[c].result = Thrown("HttpError 401")
    /\ slot[c].engineCalls = 1
    /\ slot[c].toasts = {<<"error", "Error Authenticating with", <<"a">>>>}

C18_Serialized ==
  \A c \in Calls :
    Returned_(c) /\ ~slot[c].overlapped => SnapshotOf(c) = ExpectedSnapshot(slot[c].own)

C18_Shared ==
  \A c \in Calls :
    /\ slot[c].pc = "idle" /\ slot'[c].kind = "clone" /\ slot'[c].pc = "engine"
       => heap'[fileData'] = {}
    /\ slot[c].pc = "engine" /\ Returned_(c)'
       => SnapshotOf(c)' = heap[fileData] /\ fileData' = fileData

\* C18: every clone that starts leaves the one ledger empty, whether or not
\* another clone is in flight, and every clone that succeeds returns a copy
\* of that one ledger as it then is; a clone that overlapped no other clone
\* returns exactly its own writes. (That a clone which overlapped another
\* can return a snapshot without its own writes and with the other's is the
\* state C18_Witness describes.)
C18_ClonesShareLedger == [](C18_Serialized) /\ [][C18_Shared]_vars

C18_Witness ==
  \E c1, c2 \in Calls :
    /\ c1 < c2 /\ slot[c1].overlapped /\ slot[c2].overlapped
    /\ Returned_(c1)
    /\ slot[c1].own = <<[path |-> P_A, data |-> "d1", encoding |-> Undefined]>>
    /\ slot[c2].own = <<[path |-> P_B, data |-> "d2", encoding |-> Str("utf8")]>>
    /\ SnapshotOf(c1) = {<<<<"b">>, [data |-> "d2", encoding |-> Str("utf8")]>>}

\* call c was refused with the credential found in the cache
RejectedCached(c) == slot[c].authState = "rejected" /\ slot[c].prompts = 0

C19_OnlyOnSuccess ==
  cookies' # cookies =>
    \E c \in Calls :
      /\ slot[c].authState = "provided" /\ slot'[c].authState = "accepted"
      /\ cookies' = saveGitAuth(cookies, slot[c].url, slot[c].auth)

C19_SameAgain ==
  \A c1, c2 \in Calls :
    /\ RejectedCached(c1)
    /\ slot[c2].pc = "engine" /\ slot[c2].url # NoUrl
    /\ HostOf(slot[c2].url) = HostOf(slot[c1].url)
    /\ slot[c2].authState = "none" /\ slot'[c2].authState # "none"
    => slot'[c2].auth = slot[c1].auth /\ slot'[c2].prompts = slot[c2].prompts

C19_NotEvicted ==
  \A c \in Calls :
    RejectedCached(c) => lookupSavedPassword(cookies, slot[c].url) = slot[c].auth

\* C19: the cookie jar changes only in an onAuthSuccess step, which saves the
\* credential the engine authenticated with; so no start of a call, no
\* onAuth, no onAuthFailure and no end of a call, failed or not, changes it.
\* A credential taken from the cache and then rejected is still the cached
\* one afterwards, and every later onAuth for that host returns it and shows
\* no dialog.
C19_CacheWrittenOnSuccessOnly == [](C19_NotEvicted) /\ [][C19_OnlyOnSuccess /\ C19_SameAgain]_vars

C19_Witness ==
  \E c1, c2 \in Calls :
    /\ c1 < c2 /\ RejectedCached(c1) /\ Ended(c1)
    /\ RejectedCached(c2)
    /\ slot[c1].auth = Auth(Str("bob"), Str("hunter"))
    /\ slot[c2].auth = Auth(Str("bob"), Str("hunter"))
    /\ lookupSavedPassword(cookies, URL_A_S) = Auth(Str("bob"), Str("hunter"))

\* the sandbox holds a file at the relative path of entry e with e's data
InSandbox(e) ==
  LET r == SbxResolve(e[1])
  IN  r[1] = "ok" /\ SbxIsFile(sbx, r[2]) /\ sbx[r[2]].data = e[2].data

\* C20: once a clone has returned, the sandbox holds, for every entry of its
\* snapshot, a file at the entry's relative path with the entry's data.
C20_SnapshotMatchesSandbox ==
  \A c \in Calls : Returned_(c) => \A e \in SnapshotOf(c) : InSandbox(e)

\* the requested absolute path names the workdir or something that exists
\* below it in the sandbox
ExistsAtOrBelowWorkdir(p) ==
  /\ IsAbsolute(p)
  /\ LET n == ResolveAbsolute(Split(p), <<>>)
         w == ResolveAbsolute(Split(WORKDIR), <<>>)
     IN  /\ IsPrefix(w, n)
         /\ SbxExists(sbx, SubSeq(n, Len(w) + 1, Len(n)))

\* C21: a stat or lstat call succeeds when the requested path names the
\* workdir or a file or directory that exists below it, and fails with
\* ENOENT otherwise.
C21_StatFindsWhatExists ==
  last.op \in {"stat", "lstat"} =>
    IF ExistsAtOrBelowWorkdir(last.path) THEN IsOk(last.result)
    ELSE IsEnoent(last.result, last.path)
====
